---- MODULE Spec2Model ----
(***************************************************************************)
(* golo: the build loop (Runner.Prepare / Runner.Run), the fixer loops     *)
(* (Fixer.Fix, Fixer.fixPkg, Fixer.parseFile) and the deferred-fault patch *)
(* (Fixer.fixError, newLinesInRange).                                      *)
(*                                                                         *)
(* Three specifications share the module:                                  *)
(*   SpecRunner  the build loop; file contents are content identifiers and *)
(*               a call of Fixer.Fix is one step with every effect the     *)
(*               fixer can have on the shared overlay map;                 *)
(*   SpecFixer   one call of Fixer.Fix, pass by pass, with the parser and  *)
(*               the type checker as external collaborators;               *)
(*   SpecPatch   fixError's deferred-fault path on byte sequences.         *)
(* The variables of the parts a specification does not run stay idle.      *)
(***************************************************************************)
EXTENDS Integers, Sequences, FiniteSets, TLC

(***************************************************************************)
(* Bounds of the model.                                                    *)
(***************************************************************************)
\* longest diagnostic stream (in lines) one compiler invocation prints
MaxLines == 2
\* most patches one file receives in the build-loop model
MaxVer == 2
\* most packages one packages.Load returns
MaxPkgs == 2
\* most type errors one package reports
MaxErrs == 2
\* longest file content (in bytes) handed to fixError
MaxLen == 4
\* statements in the list of a function body
MaxItems == 2
\* longest local name of an import entry (in bytes)
MaxName == 2

\* unit identifiers the compiler can report (the set U of the build loop)
Units == {"a", "b", "command-line-arguments"}
\* source files the fixer can patch
Files == {"x.go", "y.go"}
Modes == {"run", "test", "build"}

(***************************************************************************)
(* State of the build loop.                                                *)
(***************************************************************************)
VARIABLES
    mode,          \* Runner.mode
    verbose,       \* Runner.verbose
    built,         \* Runner.built
    r_fixed,       \* Runner.fixed (the map Fixer.Fixed aliases): file -> content id, 0 = no entry
    overlays,      \* Runner.overlays.Replace: file -> name of its temporary file, "" = no entry
    overlayFile,   \* Runner.overlayFile
    exeFile,       \* Runner.exeFile
    cleanup,       \* Runner.cleanup (as a set of names)
    disk,          \* the temporary files that exist
    written,       \* file -> content id written to its temporary file (0 = nothing)
    descriptor,    \* the Replace map last encoded into the overlay descriptor
    fixed,         \* Prepare's local map `fixed': the units marked as attempted
    toFix,         \* Prepare's local toFix
    clidx,         \* Prepare's local clidx (1-based; 0 stands for -1)
    pc,            \* position of main: "build", "fixcl", "fix", "returned", "exited"
    prepErr,       \* what Prepare returned: "none" (running), "nil", "error"
    exitStatus,    \* process exit: "none", "child" (the final process's status), "1"
    \* history of the run, read by the properties only
    builds,        \* compiler invocations made by Prepare
    lastExit,      \* "none", "ok", "failed", "notrun": how the last invocation ended
    lastReported,  \* broken-unit list parsed from the last invocation's output
    reportedBefore,\* units reported by the earlier invocations of this Prepare
    fixedBefore,   \* Prepare's `fixed' as it was before the last invocation
    invocation,    \* last invocation: overlay flag, contents the compiler read, contents wanted
    fixCalls,      \* calls of Fixer.Fix made by Prepare
    handed,        \* unit -> number of loop iterations that handed it to Fixer.Fix
    ran            \* the command Run executed

runnerVars == <<mode, verbose, built, r_fixed, overlays, overlayFile, exeFile, cleanup,
                disk, written, descriptor, fixed, toFix, clidx, pc, prepErr, exitStatus,
                builds, lastExit, lastReported, reportedBefore, fixedBefore, invocation,
                fixCalls, handed, ran>>

(***************************************************************************)
(* State of one call of Fixer.Fix.  A content is 0 (no overlay entry: the  *)
(* bytes on disk), Prior (an entry the map held when Fix was called) or    *)
(* Patched (bytes written by Fixer.update during this call).               *)
(***************************************************************************)
VARIABLES
    Fixed,         \* Fixer.Fixed: file -> content, 0 = no entry
    fpc,           \* position in Fix: "load", "parse", "loaded", "pkgs", "done" ("idle": not called)
    fi,            \* Fix's loop variable i
    passFixed,     \* Fix's local `fixed' of the current pass
    pkgs,          \* how many packages of the current pass fixPkg has not been called for yet
    parsed,        \* files packages.Load has handed to parseFile in the current pass
    pf,            \* the current (or last) call of parseFile: filename, i, content, result
    fRet,          \* what Fix returned: "none" (running), "nil", "error"
    \* history of the call, read by the properties only
    Fixed0,        \* Fixer.Fixed when Fix was called
    loads,         \* calls of packages.Load
    fixPasses,     \* passes in which fixPkg applied a fix
    sawError,      \* a parse error, type error or load error was reported
    everPatched,   \* files Fixer.update was called for
    lastPass,      \* how the last pass ended: "none", "nofix", "fix", "loaderr", "pkgerr"
    tried,         \* the last call of fixPkg: the unit's type errors, those fixError was called for,
                   \* the tree it was called with
    passPatched    \* file -> patches fixPkg applied to it in the current pass

fixerVars == <<Fixed, fpc, fi, passFixed, pkgs, parsed, pf, fRet, Fixed0, loads, fixPasses,
               sawError, everPatched, lastPass, tried, passPatched>>

(***************************************************************************)
(* State of one call of Fixer.fixError on bytes.  A content is a sequence  *)
(* of one-character strings.                                               *)
(***************************************************************************)
VARIABLES
    content,       \* fixError's content
    offset,        \* fixError's offset (0-based, as in the source)
    msg,           \* fixError's msg
    loc,           \* what findEnclosing finds for the offset in fixError's file
    nodes,         \* what the structural micro-fixes find for the offset in that file
    outcome        \* the call's outcome

patchVars == <<content, offset, msg, loc, nodes, outcome>>

vars == <<runnerVars, fixerVars, patchVars>>

(***************************************************************************)
(* Helpers.                                                                *)
(***************************************************************************)
Range(s) == {s[i] : i \in 1..Len(s)}

SeqsUpTo(S, n) == UNION {[1..k -> S] : k \in 0..n}

\* name os.CreateTemp returns for the patched copy of f
GoTemp(f) == IF f = "x.go" THEN "golo-1.go" ELSE "golo-2.go"
ExeTemp == "golo-exe"
JsonTemp == "golo-0.json"

NoFiles == [f \in Files |-> 0]
NoReplace == [f \in Files |-> ""]

(***************************************************************************)
(* The diagnostic stream and rePackage.                                    *)
(***************************************************************************)
\* a line of compiler output: "# <unit>", "# <unit> [<variant>]", or anything else
MarkerLines == [marker : {TRUE}, unit : Units, suffix : BOOLEAN]
OtherLine == [marker |-> FALSE, unit |-> "", suffix |-> FALSE]
Lines == MarkerLines \cup {OtherLine}

\* rePackage.FindSubmatch(line) # nil
rePackageMatches(line) == line.marker
\* matches[1]: the unit identifier, the bracketed variant dropped
rePackageUnit(line) == line.unit

RECURSIVE parseOutput(_)
parseOutput(out) ==
    IF out = <<>> THEN <<>>
    ELSE IF rePackageMatches(Head(out))
         THEN <<rePackageUnit(Head(out))>> \o parseOutput(Tail(out))
         ELSE parseOutput(Tail(out))

(***************************************************************************)
(* Runner.New                                                              *)
(***************************************************************************)
New ==
    /\ mode \in Modes
    /\ verbose \in BOOLEAN
    /\ built = FALSE
    /\ r_fixed = NoFiles
    /\ overlays = NoReplace
    /\ overlayFile = ""
    /\ exeFile = ""
    /\ cleanup = {}
    /\ disk = {}
    /\ written = NoFiles
    /\ descriptor = NoReplace
    /\ fixed = {}
    /\ toFix = <<>>
    /\ clidx = 0
    /\ pc = "build"
    /\ prepErr = "none"
    /\ exitStatus = "none"
    /\ builds = 0
    /\ lastExit = "none"
    /\ lastReported = <<>>
    /\ reportedBefore = {}
    /\ fixedBefore = {}
    /\ invocation = [overlay |-> FALSE, read |-> NoFiles, want |-> NoFiles]
    /\ fixCalls = 0
    /\ handed = [u \in Units |-> 0]
    /\ ran = [cmd |-> "none", sub |-> "", overlay |-> FALSE]

(***************************************************************************)
(* Runner.updateOverlays                                                   *)
(*                                                                         *)
(* fail names the system call that fails ("none": no call fails); for a    *)
(* failure inside the loop over r.fixed, done holds the files the loop     *)
(* finished before it reached the failing file g (map iteration order is   *)
(* not fixed).  The result holds the error and the fields as they are left.*)
(***************************************************************************)
\* files of r.fixed the loop creates a temporary file for: Replace[f] == ""
missingOverlay(f) == r_fixed[f] # 0 /\ overlays[f] = ""
MissingOverlays == {f \in Files : missingOverlay(f)}

OverlayFails == {"none", "overlayTemp", "goTemp", "write", "create", "encode"}

updateOverlays(fail, done, g) ==
    IF fail = "overlayTemp"
    THEN [err |-> TRUE, overlayFile |-> overlayFile, overlays |-> overlays,
          cleanup |-> cleanup, disk |-> disk, written |-> written,
          descriptor |-> descriptor]
    ELSE
    LET newJson == IF overlayFile = "" THEN {JsonTemp} ELSE {}
        \* the files whose Replace entry is set by this call
        named == IF fail = "write" THEN done \cup {g} ELSE done
        ov == [f \in Files |-> IF f \in named THEN GoTemp(f) ELSE overlays[f]]
        cl == cleanup \cup newJson \cup {GoTemp(f) : f \in named}
        dk == disk \cup newJson \cup {GoTemp(f) : f \in named}
        wr == [f \in Files |-> IF f \in done THEN r_fixed[f] ELSE written[f]]
    IN  [err |-> fail # "none",
         overlayFile |-> JsonTemp,
         overlays |-> ov,
         cleanup |-> cl,
         disk |-> dk,
         written |-> wr,
         descriptor |-> CASE fail \in {"goTemp", "write", "create"} -> descriptor
                          [] fail = "encode" -> NoReplace
                          [] OTHER -> ov]

(***************************************************************************)
(* Runner.getBrokenPackages                                                *)
(*                                                                         *)
(* fail, done, g as above, with "exeTemp" and "chmod" for the executable's *)
(* temporary file; exit is how the compiler process ended ("ok", "failed", *)
(* or "notrun": it could not be started) and out is its combined output.   *)
(***************************************************************************)
Fails == OverlayFails \cup {"exeTemp", "chmod"}
Exits == {"ok", "failed", "notrun"}

hasFixed == \E f \in Files : r_fixed[f] # 0

\* the inputs a call can meet in the current state
failChoices ==
    {"none"}
    \cup (IF exeFile = "" THEN {"exeTemp", "chmod"} ELSE {})
    \cup (IF hasFixed THEN {"create", "encode"} ELSE {})
    \cup (IF hasFixed /\ overlayFile = "" THEN {"overlayTemp"} ELSE {})
    \cup (IF hasFixed /\ MissingOverlays # {} THEN {"goTemp", "write"} ELSE {})
failingFileChoices(fail) ==
    IF fail \in {"goTemp", "write"} THEN MissingOverlays ELSE {"x.go"}
doneChoices(fail, g) ==
    IF fail \in {"goTemp", "write"} THEN SUBSET (MissingOverlays \ {g})
    ELSE IF fail \in OverlayFails /\ hasFixed THEN {MissingOverlays}
    ELSE {{}}
exitChoices(fail) == IF fail = "none" THEN Exits ELSE {"notrun"}
outChoices(exit) == IF exit = "failed" THEN SeqsUpTo(Lines, MaxLines) ELSE {<<>>}

getBrokenPackages(fail, done, g, exit, out) ==
    LET same == [err |-> FALSE, overlayFile |-> overlayFile, overlays |-> overlays,
                 cleanup |-> cleanup, disk |-> disk, written |-> written,
                 descriptor |-> descriptor]
        exeNew == IF exeFile = "" /\ fail # "exeTemp" THEN {ExeTemp} ELSE {}
        exe == IF fail = "exeTemp" THEN exeFile ELSE ExeTemp
        invoked == fail = "none"
        u == IF fail \in OverlayFails /\ hasFixed THEN updateOverlays(fail, done, g) ELSE same
    IN  [err |-> fail # "none",
         toFix |-> IF invoked /\ exit # "ok" THEN parseOutput(out) ELSE <<>>,
         built |-> IF invoked /\ exit = "ok" THEN TRUE ELSE built,
         exeFile |-> exe,
         overlayFile |-> u.overlayFile,
         overlays |-> u.overlays,
         cleanup |-> u.cleanup \cup exeNew,
         disk |-> u.disk \cup exeNew,
         written |-> u.written,
         descriptor |-> u.descriptor,
         invoked |-> invoked,
         overlayArg |-> invoked /\ hasFixed,
         \* what the compiler reads for each file through the descriptor
         read |-> [f \in Files |-> IF u.descriptor[f] # "" THEN u.written[f] ELSE 0]]


(***************************************************************************)
(* Runner.Prepare                                                          *)
(***************************************************************************)
\* the test left out
alreadyAttempted_never(fx, pkg) == FALSE
\* fixed[pkg]
alreadyAttempted(fx, pkg) == pkg \in fx
\* the marking left out
markAttempted_dropped(fx, pkg) == fx
\* the unit built from the files of the command line never marked
markAttempted_exceptCommandLine(fx, pkg) ==
    IF pkg = "command-line-arguments" THEN fx ELSE fx \cup {pkg}
\* fixed[pkg] = true
markAttempted(fx, pkg) == fx \cup {pkg}

\* the loop `for i, pkg := range toFix': ret says the loop returned from Prepare
RECURSIVE rangeToFix(_, _, _, _)
rangeToFix(list, i, fx, cl) ==
    IF i > Len(list) THEN [ret |-> FALSE, fixed |-> fx, clidx |-> cl]
    ELSE IF alreadyAttempted(fx, list[i]) THEN [ret |-> TRUE, fixed |-> fx, clidx |-> cl]
    ELSE rangeToFix(list, i + 1, markAttempted(fx, list[i]),
                    IF list[i] = "command-line-arguments" THEN i ELSE cl)

\* append(toFix[0:clidx:clidx], toFix[clidx+1:]...)
removeAt(list, i) == SubSeq(list, 1, i - 1) \o SubSeq(list, i + 1, Len(list))

\* What one call of Fixer.Fix can do to the shared map: the files of S each get
\* a new content; no entry is ever removed (Fixer.update is the only writer).
fixerFix(S) == [f \in Files |-> IF f \in S THEN r_fixed[f] + 1 ELSE r_fixed[f]]
fixerFixCan(S) == \A f \in S : r_fixed[f] < MaxVer

\* One iteration of the loop up to the calls of the fixer: getBrokenPackages,
\* the Built test and the marking loop.
PrepareBuild ==
    /\ pc = "build"
    /\ \E fail \in failChoices :
       \E g \in failingFileChoices(fail) :
       \E done \in doneChoices(fail, g) :
       \E exit \in exitChoices(fail) :
       \E out \in outChoices(exit) :
       \E r \in {getBrokenPackages(fail, done, g, exit, out)} :
       \E m \in {rangeToFix(r.toFix, 1, fixed, 0)} :
               /\ exeFile' = r.exeFile
               /\ overlayFile' = r.overlayFile
               /\ overlays' = r.overlays
               /\ cleanup' = r.cleanup
               /\ disk' = r.disk
               /\ written' = r.written
               /\ descriptor' = r.descriptor
               /\ toFix' = r.toFix
               /\ builds' = IF r.invoked THEN builds + 1 ELSE builds
               /\ lastExit' = IF r.invoked THEN exit ELSE lastExit
               /\ lastReported' = IF r.invoked THEN r.toFix ELSE lastReported
               /\ reportedBefore' = IF r.invoked THEN reportedBefore \cup Range(lastReported)
                                    ELSE reportedBefore
               /\ fixedBefore' = IF r.invoked THEN fixed ELSE fixedBefore
               /\ invocation' = IF r.invoked
                                THEN [overlay |-> r.overlayArg, read |-> r.read, want |-> r_fixed]
                                ELSE invocation
               /\ IF r.err
                  THEN /\ pc' = "returned" /\ prepErr' = "error"
                       /\ UNCHANGED <<built, fixed, clidx>>
                  ELSE IF Len(r.toFix) = 0
                  THEN /\ built' = TRUE
                       /\ pc' = "returned" /\ prepErr' = "nil"
                       /\ UNCHANGED <<fixed, clidx>>
                  ELSE /\ built' = r.built
                       /\ fixed' = m.fixed
                       /\ clidx' = m.clidx
                       /\ IF m.ret
                          THEN pc' = "returned" /\ prepErr' = "nil"
                          ELSE pc' = (IF m.clidx > 0 THEN "fixcl" ELSE "fix") /\ prepErr' = prepErr
    /\ UNCHANGED <<mode, verbose, r_fixed, exitStatus, fixCalls, handed, ran>>
    /\ UNCHANGED <<fixerVars, patchVars>>

\* if clidx > -1 { toFix = ...; fixer.Fix(r.buildArgs...) }: the unit at clidx,
\* "command-line-arguments", is handed to the fixer as the build arguments
PrepareFixCommandLine ==
    /\ pc = "fixcl"
    /\ toFix' = removeAt(toFix, clidx)
    /\ \E S \in SUBSET Files, e \in BOOLEAN :
        /\ fixerFixCan(S)
        /\ r_fixed' = fixerFix(S)
        /\ IF e THEN pc' = "returned" /\ prepErr' = "error"
                ELSE pc' = "fix" /\ prepErr' = prepErr
    /\ fixCalls' = fixCalls + 1
    /\ handed' = [handed EXCEPT ![toFix[clidx]] = @ + 1]
    /\ UNCHANGED <<mode, verbose, built, overlays, overlayFile, exeFile, cleanup, disk,
                   written, descriptor, fixed, clidx, exitStatus, builds, lastExit,
                   lastReported, reportedBefore, fixedBefore, invocation, ran>>
    /\ UNCHANGED <<fixerVars, patchVars>>

\* fixer.Fix(toFix...), then around the loop
PrepareFix ==
    /\ pc = "fix"
    /\ \E S \in SUBSET Files, e \in BOOLEAN :
        /\ fixerFixCan(S)
        /\ r_fixed' = fixerFix(S)
        /\ IF e THEN pc' = "returned" /\ prepErr' = "error"
                ELSE pc' = "build" /\ prepErr' = prepErr
    /\ fixCalls' = fixCalls + 1
    /\ handed' = [u \in Units |-> IF u \in Range(toFix) THEN handed[u] + 1 ELSE handed[u]]
    /\ UNCHANGED <<mode, verbose, built, overlays, overlayFile, exeFile, cleanup, disk,
                   written, descriptor, fixed, toFix, clidx, exitStatus, builds, lastExit,
                   lastReported, reportedBefore, fixedBefore, invocation, ran>>
    /\ UNCHANGED <<fixerVars, patchVars>>

Prepare == PrepareBuild \/ PrepareFixCommandLine \/ PrepareFix

(***************************************************************************)
(* Runner.Run and Runner.exec, called by main when Prepare returned nil    *)
(***************************************************************************)
\* the command Run hands to exec
runCommand ==
    IF ~built THEN [cmd |-> "go", sub |-> mode, overlay |-> FALSE]
    ELSE IF mode = "run" THEN [cmd |-> "exe", sub |-> "", overlay |-> FALSE]
    ELSE [cmd |-> "go", sub |-> mode, overlay |-> overlayFile # ""]

\* started: cmd.Run could start the process (ProcessState # nil)
Run ==
    /\ pc = "returned" /\ prepErr = "nil"
    /\ ran' = runCommand
    /\ disk' = IF ~verbose THEN disk \ cleanup ELSE disk
    /\ \E started \in BOOLEAN : exitStatus' = IF started THEN "child" ELSE "1"
    /\ pc' = "exited"
    /\ UNCHANGED <<mode, verbose, built, r_fixed, overlays, overlayFile, exeFile, cleanup,
                   written, descriptor, fixed, toFix, clidx, prepErr, builds, lastExit,
                   lastReported, reportedBefore, fixedBefore, invocation, fixCalls, handed>>
    /\ UNCHANGED <<fixerVars, patchVars>>

\* main: Prepare returned an error: print it and os.Exit(1)
MainPrepareFailed ==
    /\ pc = "returned" /\ prepErr = "error"
    /\ exitStatus' = "1"
    /\ pc' = "exited"
    /\ UNCHANGED <<mode, verbose, built, r_fixed, overlays, overlayFile, exeFile, cleanup,
                   disk, written, descriptor, fixed, toFix, clidx, prepErr, builds, lastExit,
                   lastReported, reportedBefore, fixedBefore, invocation, fixCalls, handed,
                   ran>>
    /\ UNCHANGED <<fixerVars, patchVars>>

RunnerNext == PrepareBuild \/ PrepareFixCommandLine \/ PrepareFix \/ Run \/ MainPrepareFailed

RunnerIdle ==
    /\ mode = "run"
    /\ verbose = FALSE
    /\ built = FALSE
    /\ r_fixed = NoFiles
    /\ overlays = NoReplace
    /\ overlayFile = ""
    /\ exeFile = ""
    /\ cleanup = {}
    /\ disk = {}
    /\ written = NoFiles
    /\ descriptor = NoReplace
    /\ fixed = {}
    /\ toFix = <<>>
    /\ clidx = 0
    /\ pc = "idle"
    /\ prepErr = "none"
    /\ exitStatus = "none"
    /\ builds = 0
    /\ lastExit = "none"
    /\ lastReported = <<>>
    /\ reportedBefore = {}
    /\ fixedBefore = {}
    /\ invocation = [overlay |-> FALSE, read |-> NoFiles, want |-> NoFiles]
    /\ fixCalls = 0
    /\ handed = [u \in Units |-> 0]
    /\ ran = [cmd |-> "none", sub |-> "", overlay |-> FALSE]


(***************************************************************************)
(* Properties of the build loop.                                           *)
(***************************************************************************)
\* C1: Prepare terminates.  Every iteration that does not return has marked a
\* unit that was not marked before, so the compiler invocations made while the
\* loop goes on never outnumber the marked units, only units the compiler can
\* report are marked, and Prepare makes at most |U|+1 invocations in all.
C1_PrepareBounded ==
    /\ fixed \subseteq Units
    /\ pc \in {"build", "fixcl", "fix"} => builds <= Cardinality(fixed)
    /\ pc \in {"returned", "exited"} => builds <= Cardinality(fixedBefore) + 1
    /\ builds <= Cardinality(Units) + 1

\* C1 witness: Prepare has returned after |U|+1 invocations, each earlier one
\* having reported a new unit.
C1_Witness ==
    /\ pc = "returned"
    /\ builds = Cardinality(Units) + 1
    /\ fixedBefore = Units

\* C2 (as claimed): Prepare gives up (returns nil with built false) only when a
\* unit of the newly reported list was already marked before that build; a
\* non-empty list with no unit marked before the build is never given up on.
C2_GiveUpOnlyOnMarkedBefore ==
    (pc = "returned" /\ prepErr = "nil" /\ ~built)
        => \E i \in 1..Len(lastReported) : lastReported[i] \in fixedBefore

\* C3 (as claimed): after Prepare returned, built is true only if the last
\* compiler invocation exited successfully, and after a failed last invocation
\* Run takes the failure path (the requested action, no overlay).
C3_BuiltOnlyAfterSuccess ==
    /\ (pc \in {"returned", "exited"} /\ built) => lastExit = "ok"
    /\ (pc = "exited" /\ prepErr = "nil" /\ lastExit # "ok")
           => ran = [cmd |-> "go", sub |-> mode, overlay |-> FALSE]

\* a unit reported by an earlier build of this Prepare is reported again
repeatReported ==
    /\ lastExit = "failed"
    /\ \E i \in 1..Len(lastReported) : lastReported[i] \in reportedBefore

\* C4: when a build reports a unit that an earlier build of the same Prepare
\* reported, Prepare has returned nil right after that build (the fixer and the
\* compiler are not invoked again), built is false, and Run invokes the
\* toolchain for the requested mode with no overlay argument.
C4_RepeatGivesUp ==
    repeatReported =>
        /\ pc \in {"returned", "exited"}
        /\ prepErr = "nil"
        /\ ~built
        /\ toFix = lastReported
        /\ pc = "exited" => ran = [cmd |-> "go", sub |-> mode, overlay |-> FALSE]

\* C4 witness: given up on a repeated unit with patches in the overlay and an
\* overlay descriptor on hand, and Run has executed.
C4_Witness ==
    /\ repeatReported
    /\ pc = "exited"
    /\ hasFixed
    /\ overlayFile # ""
    /\ mode = "test"

\* C5 (as claimed): at every compiler invocation made with an overlay, the
\* temporary file the descriptor maps f to holds the current patched content
\* of f, for every f of the overlay map.
C5_OverlayCurrent ==
    invocation.overlay =>
        \A f \in Files : invocation.want[f] # 0 => invocation.read[f] = invocation.want[f]


(***************************************************************************)
(* Fixer.Fix, Fixer.fixPkg, Fixer.parseFile                                *)
(*                                                                         *)
(* packages.Load, the parser and the type checker are collaborators: what  *)
(* they report is chosen freely at every call.  fixError is taken by its   *)
(* result here (true exactly when it called Fixer.update for the file);    *)
(* its deferred-fault path is modelled on bytes further down.              *)
(***************************************************************************)
\* contents other than 0
Prior == 1
Patched == 2

\* for i := 0; i < 10; i++
MaxPasses == 10
\* if i >= 10 || ...
MaxParses == 10

\* a type error, by the file its position resolves to; the first errors of
\* two units that lie in the same file are the same error (the units are
\* variants of one package, type-checked from the same files)
TypeErrors == SeqsUpTo(Files, MaxErrs)
Packages == [TypeErrors : TypeErrors]

\* no call of fixPkg yet
NoTry == [errors |-> <<>>, calls |-> <<>>, ended |-> "none", tree |-> "none", stale |-> FALSE]

NoCall == [file |-> "", i |-> 0, content |-> 0, patches |-> 0, status |-> "none",
           lastParse |-> "none", lastFix |-> "none"]

NewFixer ==
    /\ Fixed \in [Files -> {0, Prior}]
    /\ Fixed0 = Fixed
    /\ fpc = "pass"
    /\ fi = 0
    /\ passFixed = FALSE
    /\ pkgs = 0
    /\ parsed = {}
    /\ pf = NoCall
    /\ fRet = "none"
    /\ loads = 0
    /\ fixPasses = 0
    /\ sawError = FALSE
    /\ everPatched = {}
    /\ lastPass = "none"
    /\ tried = NoTry
    /\ passPatched = NoFiles

FixerIdle ==
    /\ Fixed = NoFiles
    /\ Fixed0 = NoFiles
    /\ fpc = "idle"
    /\ fi = 0
    /\ passFixed = FALSE
    /\ pkgs = 0
    /\ parsed = {}
    /\ pf = NoCall
    /\ fRet = "none"
    /\ loads = 0
    /\ fixPasses = 0
    /\ sawError = FALSE
    /\ everPatched = {}
    /\ lastPass = "none"
    /\ tried = NoTry
    /\ passPatched = NoFiles

\* a Fixer between two passes: no file fixed yet, or the overlay earlier
\* passes left
FixerHolding ==
    /\ Fixed \in {NoFiles, [f \in Files |-> Prior]}
    /\ Fixed0 = Fixed
    /\ fpc = "idle"
    /\ fi = 0
    /\ passFixed = FALSE
    /\ pkgs = 0
    /\ parsed = {}
    /\ pf = NoCall
    /\ fRet = "none"
    /\ loads = 0
    /\ fixPasses = 0
    /\ sawError = FALSE
    /\ everPatched = {}
    /\ lastPass = "none"
    /\ tried = NoTry
    /\ passPatched = NoFiles

\* every entry but the file's dropped
update_dropsOthers(F, filename) == [f \in Files |-> IF f = filename THEN Patched ELSE 0]
\* Fixer.update: f.Fixed[filename] = bytes.Join(content, nil)
update(F, filename) == [F EXCEPT ![filename] = Patched]

\* the cap tested one iteration late
parseCapReached_late(i) == i > MaxParses
\* i >= 10
parseCapReached(i) == i >= MaxParses

\* one pass too many
passesLeft_more(i) == i <= MaxPasses
\* i < 10
passesLeft(i) == i < MaxPasses

\* the early return left out
returnsWithoutFix_never(fx) == FALSE
\* if !fixed { return nil }
returnsWithoutFix(fx) == ~fx

\* Top of the loop body of Fix: packages.Load is called.
FixLoad ==
    /\ fpc = "pass"
    /\ loads' = loads + 1
    /\ parsed' = {}
    /\ fpc' = "load"
    /\ passPatched' = NoFiles
    /\ UNCHANGED <<Fixed, fi, passFixed, pkgs, pf, fRet, Fixed0, fixPasses, sawError,
                   everPatched, lastPass, tried>>
    /\ UNCHANGED <<runnerVars, patchVars>>

\* packages.Load calls config.ParseFile for a file, with the overlay's content
\* for it if the overlay has one and the bytes on disk otherwise.
LoadParseFile ==
    /\ fpc = "load"
    /\ \E f \in Files \ parsed :
        /\ parsed' = parsed \cup {f}
        /\ pf' = [NoCall EXCEPT !.file = f, !.content = Fixed[f], !.status = "running"]
    /\ fpc' = "parse"
    /\ UNCHANGED <<Fixed, fi, passFixed, pkgs, fRet, Fixed0, loads, fixPasses, sawError,
                   everPatched, lastPass, tried, passPatched>>
    /\ UNCHANGED <<runnerVars, patchVars>>

\* One iteration of parseFile's loop.  res is what parser.ParseFile returns for
\* the content: "ok", "errlist" (a non-empty scanner.ErrorList) or "other";
\* fx is what fixError returns for the first error.
parseFileStep(res, fx) ==
    LET i == pf.i + 1
        call == [pf EXCEPT !.i = i, !.lastParse = res]
    IN  IF res = "ok"
        THEN /\ pf' = [call EXCEPT !.status = "tree"]
             /\ fpc' = "load"
             /\ UNCHANGED <<Fixed, everPatched, sawError>>
        ELSE /\ sawError' = TRUE
             /\ IF parseCapReached(i) \/ res = "other"
                THEN /\ pf' = [call EXCEPT !.status = "error"]
                     /\ fpc' = "load"
                     /\ UNCHANGED <<Fixed, everPatched>>
                ELSE IF ~fx
                THEN /\ pf' = [call EXCEPT !.status = "error", !.lastFix = "notfixed"]
                     /\ fpc' = "load"
                     /\ UNCHANGED <<Fixed, everPatched>>
                ELSE /\ Fixed' = update(Fixed, pf.file)
                     /\ everPatched' = everPatched \cup {pf.file}
                     /\ pf' = [call EXCEPT !.lastFix = "fixed", !.patches = pf.patches + 1,
                                           !.content = Fixed'[pf.file]]
                     /\ fpc' = "parse"

parseFile ==
    /\ fpc = "parse"
    /\ \E res \in {"ok", "errlist", "other"} :
       \E fx \in (IF res = "errlist" THEN BOOLEAN ELSE {FALSE}) :
           parseFileStep(res, fx)
    /\ UNCHANGED <<fi, passFixed, pkgs, parsed, fRet, Fixed0, loads, fixPasses, lastPass,
                   tried, passPatched>>
    /\ UNCHANGED <<runnerVars, patchVars>>

\* packages.Load returns: an error, or the packages with their type errors
\* (what each package reports is chosen when the loop of Fix reaches it).
LoadReturn ==
    /\ fpc = "load"
    /\ \/ /\ fRet' = "error"
          /\ fpc' = "done"
          /\ lastPass' = "loaderr"
          /\ sawError' = TRUE
          /\ UNCHANGED <<pkgs, passFixed>>
       \/ \E n \in 0..MaxPkgs :
          /\ pkgs' = n
          /\ passFixed' = FALSE
          /\ fpc' = "pkgs"
          /\ UNCHANGED <<fRet, lastPass, sawError>>
    /\ parsed' = {}
    /\ pf' = NoCall
    /\ UNCHANGED <<Fixed, fi, Fixed0, loads, fixPasses, everPatched, tried, passPatched>>
    /\ UNCHANGED <<runnerVars, patchVars>>

\* Fixer.readFile: the overlay's content if there is one, else os.ReadFile
\* (readOk: it succeeds)
readFile(filename, readOk) ==
    IF Fixed[filename] # 0 THEN [content |-> Fixed[filename], err |-> FALSE]
    ELSE [content |-> 0, err |-> ~readOk]

\* the last reported error taken
errorToFix_last(pkg) == pkg.TypeErrors[Len(pkg.TypeErrors)]
\* e := pkg.TypeErrors[0]
errorToFix(pkg) == pkg.TypeErrors[1]

\* Fixer.fixPkg: calls holds the errors fixError is called for; cgo says the error's position lies under the go cache, parseOk
\* that the original file then parses, fx what fixError returns.
fixPkg(pkg, cgo, readOk, parseOk, fx) ==
    LET ret == [fixed |-> FALSE, err |-> FALSE, file |-> "", calls |-> <<>>, ended |-> "none",
                tree |-> "none"]
        \* the tree handed to fixError: of the pass's load, or parsed from content
        tree == IF cgo THEN "reparsed" ELSE "load"
    IN  IF Len(pkg.TypeErrors) = 0 THEN [ret EXCEPT !.ended = "noerrors"]
        ELSE LET e == errorToFix(pkg)
                 rd == readFile(e, readOk)
             IN  IF rd.err THEN [ret EXCEPT !.err = TRUE, !.ended = "readerr"]
                 ELSE IF cgo /\ ~parseOk THEN [ret EXCEPT !.ended = "cgoparse"]
                 ELSE IF fx THEN [ret EXCEPT !.fixed = TRUE, !.file = e, !.calls = <<e>>,
                                             !.ended = "fixed", !.tree = tree]
                 ELSE [ret EXCEPT !.calls = <<e>>, !.ended = "notfixed", !.tree = tree]

\* One iteration of `for _, pkg := range pkgs'.
FixPkgs ==
    /\ fpc = "pkgs" /\ pkgs > 0
    /\ \E pkg \in Packages :
       \E cgo \in (IF pkg.TypeErrors = <<>> THEN {FALSE} ELSE BOOLEAN) :
       \E readOk \in (IF pkg.TypeErrors = <<>> THEN {TRUE} ELSE BOOLEAN) :
       \E parseOk \in (IF cgo THEN BOOLEAN ELSE {TRUE}) :
       \E fx \in (IF pkg.TypeErrors = <<>> THEN {FALSE} ELSE BOOLEAN) :
       \E r \in {fixPkg(pkg, cgo, readOk, parseOk, fx)} :
          /\ tried' = [errors |-> pkg.TypeErrors, calls |-> r.calls, ended |-> r.ended,
                        tree |-> r.tree,
                        \* the content fixError got was written after the load
                        stale |-> /\ r.tree = "load"
                                  /\ passPatched[r.calls[1]] > 0]
          /\ sawError' = (sawError \/ pkg.TypeErrors # <<>>)
          /\ IF r.err
             THEN /\ fRet' = "error"
                  /\ fpc' = "done"
                  /\ lastPass' = "pkgerr"
                  /\ UNCHANGED <<Fixed, everPatched, passFixed, pkgs, passPatched>>
             ELSE /\ pkgs' = pkgs - 1
                  /\ passFixed' = (passFixed \/ r.fixed)
                  /\ Fixed' = IF r.fixed THEN update(Fixed, r.file) ELSE Fixed
                  /\ everPatched' = IF r.fixed THEN everPatched \cup {r.file} ELSE everPatched
                  /\ passPatched' = IF r.fixed
                                    THEN [passPatched EXCEPT ![r.file] = @ + 1]
                                    ELSE passPatched
                  /\ UNCHANGED <<fRet, fpc, lastPass>>
    /\ UNCHANGED <<fi, parsed, pf, Fixed0, loads, fixPasses>>
    /\ UNCHANGED <<runnerVars, patchVars>>

\* End of the loop body: return nil if the pass fixed nothing, else i++ and
\* around the loop, or return nil when the passes are used up.
FixPassEnd ==
    /\ fpc = "pkgs" /\ pkgs = 0
    /\ IF returnsWithoutFix(passFixed)
       THEN /\ fRet' = "nil"
            /\ fpc' = "done"
            /\ lastPass' = "nofix"
            /\ UNCHANGED <<fi, fixPasses>>
       ELSE /\ fi' = fi + 1
            /\ fixPasses' = fixPasses + (IF passFixed THEN 1 ELSE 0)
            /\ lastPass' = IF passFixed THEN "fix" ELSE "nofix"
            /\ IF passesLeft(fi')
               THEN fpc' = "pass" /\ fRet' = fRet
               ELSE fpc' = "done" /\ fRet' = "nil"
    /\ tried' = NoTry
    /\ UNCHANGED <<Fixed, passFixed, pkgs, parsed, pf, Fixed0, loads, sawError, everPatched,
                   passPatched>>
    /\ UNCHANGED <<runnerVars, patchVars>>

Fix == FixLoad \/ LoadParseFile \/ parseFile \/ LoadReturn \/ FixPkgs \/ FixPassEnd

(***************************************************************************)
(* Fixer.fixError, deferred-fault path, with findRangeToFix and            *)
(* newLinesInRange.  The diagnostic is none of the three the structural    *)
(* micro-fixes take.  The syntax tree enters by what findEnclosing returns *)
(* for the offset:                                                         *)
(*   stmt     offset of statement.Pos(), -1 for a nil statement            *)
(*   block    "nil", "valid" (Rbrace.IsValid()) or "invalid"               *)
(*   rbrace   offset of the block's Rbrace when it is valid                *)
(*   fnBody   "nil", "block" (fnBody == block) or "other"                  *)
(*   fnList   offsets of the statements of fnBody.List, ascending          *)
(***************************************************************************)
Alphabet == {"\n", "\r", "}", "f", "x"}
MsgAlphabet == {"m", "\n", "\""}
Msgs == {<<"m">>, <<"m", "\n", "\"">>}

isNewline(b) == b = "\n" \/ b = "\r"

\* content[a:b]
Slice(c, a, b) == SubSeq(c, a + 1, b)

\* "\r" taken for an ordinary byte
newLinesInRange_lfOnly(s) == SelectSeq(s, LAMBDA b : b = "\n")
\* newLinesInRange
RECURSIVE newLinesInRange(_)
newLinesInRange(s) ==
    IF s = <<>> THEN <<>>
    ELSE IF isNewline(Head(s)) THEN <<Head(s)>> \o newLinesInRange(Tail(s))
    ELSE newLinesInRange(Tail(s))

\* strconv's quoting of one byte of a string, as fmt's %#v applies it
quoteByte(b) ==
    CASE b = "\n" -> <<"\\", "n">>
      [] b = "\r" -> <<"\\", "r">>
      [] b = "\"" -> <<"\\", "\"">>
      [] b = "\\" -> <<"\\", "\\">>
      [] OTHER -> <<b>>

RECURSIVE quoteBytes(_)
quoteBytes(s) == IF s = <<>> THEN <<>> ELSE quoteByte(Head(s)) \o quoteBytes(Tail(s))

\* fmt.Sprintf("%#v", msg)
sprintfSharpV(m) == <<"\"">> \o quoteBytes(m) \o <<"\"">>

\* "panic(" + fmt.Sprintf("%#v", msg) + ")"
panicStatement(m) == <<"p", "a", "n", "i", "c", "(">> \o sprintfSharpV(m) \o <<")">>

\* bytes.ContainsRune([]byte("}fvct/"), r)
startsBoundary(r) == r \in {"}", "f", "v", "c", "t", "/"}

\* bytes.IndexFunc(tail, ...) with the closure's wasNewline; 0-based, -1 if none
RECURSIVE indexBoundary(_, _, _)
indexBoundary(tail, i, wasNewline) ==
    IF i > Len(tail) THEN -1
    ELSE IF startsBoundary(tail[i])
         THEN IF wasNewline THEN i - 1 ELSE indexBoundary(tail, i + 1, wasNewline)
         ELSE indexBoundary(tail, i + 1, isNewline(tail[i]))

\* bytes.LastIndexFunc(tail[:end], ...) with the closure's wasNewline
RECURSIVE lastIndexBrace(_, _, _)
lastIndexBrace(t, i, wasNewline) ==
    IF i < 1 THEN -1
    ELSE IF t[i] = "}"
         THEN IF wasNewline THEN i - 1 ELSE lastIndexBrace(t, i - 1, wasNewline)
         ELSE lastIndexBrace(t, i - 1, isNewline(t[i]))

\* for _, stmt := range fnBody.List { if stmt.Pos() < pos { statement = stmt } else { break } }
RECURSIVE pushDown(_, _, _)
pushDown(list, pos, statement) ==
    IF list = <<>> THEN statement
    ELSE IF Head(list) < pos THEN pushDown(Tail(list), pos, Head(list))
    ELSE statement

NoRange == [crash |-> FALSE, start |-> 0, end |-> 0, tail |-> <<>>]

\* Fixer.findRangeToFix; crash: the call panics (nil statement dereferenced)
findRangeToFix(c, off, l) ==
    IF l.block = "valid"
    THEN IF l.stmt = -1 THEN [NoRange EXCEPT !.crash = TRUE]
         ELSE [NoRange EXCEPT !.start = l.stmt, !.end = l.rbrace]
    ELSE IF l.fnBody = "nil" \/ l.stmt = -1 THEN NoRange
    ELSE LET statement == IF l.fnBody # "block" THEN pushDown(l.fnList, off, l.stmt)
                          ELSE l.stmt
             start == statement
             tail == Slice(c, start, Len(c))
             found == indexBoundary(tail, 1, FALSE)
         IN  IF found > -1 /\ tail[found + 1] = "}"
             THEN [NoRange EXCEPT !.start = start, !.end = start + found]
             ELSE LET end == IF found = -1 THEN Len(tail) - 1 ELSE found
                      closeBrace == lastIndexBrace(Slice(tail, 0, end), end, FALSE)
                  IN  IF closeBrace > -1
                      THEN [NoRange EXCEPT !.start = start, !.end = start + closeBrace]
                      ELSE [NoRange EXCEPT !.start = start, !.end = start + end,
                                           !.tail = <<"}">>]

\* updated: Fixer.update was called; file: the filename fixError was called for
NoOutcome == [called |-> FALSE, crash |-> FALSE, fixed |-> FALSE, start |-> 0, end |-> 0,
              tail |-> <<>>, newCode |-> <<>>, patched |-> <<>>, updated |-> FALSE,
              file |-> ""]

\* Fixer.fixError from `start, end, tail := f.findRangeToFix(...)' on; patched is
\* the content Fixer.update stores for the file
fixError(c, off, m, l) ==
    LET r == findRangeToFix(c, off, l)
        called == [NoOutcome EXCEPT !.called = TRUE, !.start = r.start, !.end = r.end,
                                    !.tail = r.tail]
    IN  IF r.crash THEN [called EXCEPT !.crash = TRUE]
        ELSE IF r.start = r.end THEN called
        ELSE IF r.start > off \/ r.end < off THEN called
        ELSE LET newlinesBefore == newLinesInRange(Slice(c, r.start, off))
                 newlinesAfter == newLinesInRange(Slice(c, off, r.end))
                 newCode == newlinesBefore \o panicStatement(m) \o newlinesAfter
             IN  [called EXCEPT !.fixed = TRUE, !.updated = TRUE, !.newCode = newCode,
                                !.patched = Slice(c, 0, r.start) \o newCode \o r.tail
                                            \o Slice(c, r.end, Len(c))]

\* The results findEnclosing can return for an offset of the content.  A
\* statement starts at a token (no line break, no closing brace) at or before
\* the offset; a valid Rbrace is a "}" of the content, after the statement,
\* whose block ends at or after the offset; fnBody.List is read only when
\* fnBody is not the block found.
stmtStarts(c) == {p \in 0..(Len(c) - 1) : ~isNewline(c[p + 1]) /\ c[p + 1] # "}"}
stmtChoices(c, off) == {-1} \cup {p \in stmtStarts(c) : p <= off}
rbraceChoices(c, off, st) == {p \in 0..(Len(c) - 1) : c[p + 1] = "}" /\ p + 1 >= off /\ p > st}
fnListChoices(c) == {<<>>} \cup {<<p>> : p \in stmtStarts(c)}
Locs(c, off) ==
    UNION {{[stmt |-> st, block |-> "valid", rbrace |-> rb, fnBody |-> "block",
             fnList |-> <<>>] : rb \in rbraceChoices(c, off, st)} :
           st \in stmtChoices(c, off)}
    \cup {[stmt |-> st, block |-> b, rbrace |-> 0, fnBody |-> "nil", fnList |-> <<>>] :
        st \in stmtChoices(c, off), b \in {"nil", "invalid"}}
    \cup {[stmt |-> st, block |-> "invalid", rbrace |-> 0, fnBody |-> "block", fnList |-> <<>>] :
        st \in stmtChoices(c, off)}
    \cup {[stmt |-> st, block |-> b, rbrace |-> 0, fnBody |-> "other", fnList |-> fl] :
        st \in stmtChoices(c, off), b \in {"nil", "invalid"}, fl \in fnListChoices(c)}

NoLoc == [stmt |-> -1, block |-> "nil", rbrace |-> 0, fnBody |-> "nil", fnList |-> <<>>]

NoMsg == <<>>

\* no node found by a structural micro-fix (nor looked for)
NoNodes == [kind |-> "none", pos |-> 0, len |-> 0, path |-> 0, named |-> FALSE, define |-> FALSE]

\* a file content and the offset of an error in it
PatchInputs ==
    /\ content \in SeqsUpTo(Alphabet, MaxLen)
    /\ offset \in 0..Len(content)
    /\ msg = NoMsg
    /\ loc = NoLoc
    /\ nodes = NoNodes
    /\ outcome = NoOutcome

PatchIdle ==
    /\ content = <<>>
    /\ offset = 0
    /\ msg = NoMsg
    /\ loc = NoLoc
    /\ nodes = NoNodes
    /\ outcome = NoOutcome

\* fixError is called for the content and the offset, with a message and the
\* nodes findEnclosing locates
FixErrorCall ==
    /\ ~outcome.called
    /\ \E m \in Msgs, l \in Locs(content, offset) :
        /\ msg' = m
        /\ loc' = l
        /\ outcome' = fixError(content, offset, m, l)
    /\ UNCHANGED <<content, offset, nodes>>
    /\ UNCHANGED <<runnerVars, fixerVars>>

(***************************************************************************)
(* Fixer.findEnclosing on a syntax tree.  A source is the text of one      *)
(* function declaration, one byte per token, that parses without an error  *)
(* (the position comes from the type checker):                             *)
(*   "F"  the func keyword and signature, directly before the body's "{"   *)
(*   "{" "}"  the braces of a block statement                             *)
(*   "s"  a statement without a block                                      *)
(*   "i"  the header of an if statement, directly before its body's "{"    *)
(*   " "  white space                                                      *)
(* A node is named by the offset of its Pos().                             *)
(***************************************************************************)
Leaves == {<<"s">>, <<" ">>}

RECURSIVE Flatten(_)
Flatten(ss) == IF ss = <<>> THEN <<>> ELSE Head(ss) \o Flatten(Tail(ss))

Braced(x) == <<"{">> \o x \o <<"}">>

\* blocks nested in the function body, and what the body's list holds
InnerBlocks == {Braced(Flatten(ss)) : ss \in SeqsUpTo(Leaves, 2)}
Items == Leaves \cup InnerBlocks \cup {<<"i">> \o b : b \in InnerBlocks}

Sources ==
    {<<"F">> \o Braced(Flatten(ss)) \o t : ss \in SeqsUpTo(Items, MaxItems), t \in {<<>>, <<" ">>}}

\* the "}" that closes the block whose "{" precedes q, d blocks being open at q
RECURSIVE matchClose(_, _, _)
matchClose(c, q, d) ==
    IF q >= Len(c) THEN -1
    ELSE IF c[q + 1] = "{" THEN matchClose(c, q + 1, d + 1)
    ELSE IF c[q + 1] = "}" THEN (IF d = 1 THEN q ELSE matchClose(c, q + 1, d - 1))
    ELSE matchClose(c, q + 1, d)

\* BlockStmt.Rbrace of the block at p, and the block a "}" at q closes
Rbrace(c, p) == matchClose(c, p + 1, 1)
Lbrace(c, q) == CHOOSE p \in 0..q : c[p + 1] = "{" /\ Rbrace(c, p) = q

\* Node.End()
nodeEnd(c, p) ==
    CASE c[p + 1] = "{" -> Rbrace(c, p) + 1
      [] c[p + 1] \in {"i", "F"} -> Rbrace(c, p + 1) + 1
      [] OTHER -> p + 1

isStmt(c, p) == c[p + 1] \in {"s", "i", "{"}

SetMax(S) == CHOOSE x \in S : \A y \in S : y <= x

\* Cursor.Parent() of the node at p
cursorParent(c, p) ==
    IF c[p + 1] = "F" THEN -1
    ELSE IF c[p + 1] = "{" /\ c[p] \in {"i", "F"} THEN p - 1
    ELSE SetMax({b \in 0..(p - 1) : c[b + 1] = "{" /\ Rbrace(c, b) > p})

NoEnclosing == [stmt |-> -1, block |-> -1, fnBody |-> -1]

\* the pre function of findEnclosing for a node with Pos() <= pos
findEnclosingPre(c, pos, p, st) ==
    CASE c[p + 1] = "{" -> IF nodeEnd(c, p) >= pos THEN [st EXCEPT !.block = p] ELSE st
      [] c[p + 1] = "F" -> IF nodeEnd(c, p) >= pos THEN [st EXCEPT !.fnBody = p + 1] ELSE st
      [] OTHER -> IF st.block = cursorParent(c, p) THEN [st EXCEPT !.stmt = p] ELSE st

\* astutil.Apply with findEnclosing's pre and post, from the token at p on:
\* a "}" is where post is called for its block, and post returning false
\* (block == c.Node()) ends the walk; pre returning false (Pos() > pos) skips
\* the node
RECURSIVE astutilApply(_, _, _, _)
astutilApply(c, pos, p, st) ==
    IF p >= Len(c) THEN st
    ELSE IF c[p + 1] = "}"
         THEN IF st.block = Lbrace(c, p) THEN st ELSE astutilApply(c, pos, p + 1, st)
    ELSE IF c[p + 1] = " " \/ p > pos THEN astutilApply(c, pos, p + 1, st)
    ELSE astutilApply(c, pos, p + 1, findEnclosingPre(c, pos, p, st))

\* Fixer.findEnclosing
findEnclosing(c, pos) == astutilApply(c, pos, 0, NoEnclosing)

\* BlockStmt.List of the block at b, from the token at p on
RECURSIVE blockList(_, _, _)
blockList(c, b, p) ==
    IF p >= Rbrace(c, b) THEN <<>>
    ELSE IF c[p + 1] \notin {" ", "}"} /\ isStmt(c, p) /\ cursorParent(c, p) = b
         THEN <<p>> \o blockList(c, b, p + 1)
    ELSE blockList(c, b, p + 1)

\* what findRangeToFix reads of the nodes findEnclosing returned
located(c, pos) ==
    LET e == findEnclosing(c, pos)
    IN  [stmt |-> e.stmt,
         block |-> IF e.block = -1 THEN "nil" ELSE "valid",
         rbrace |-> IF e.block = -1 THEN 0 ELSE Rbrace(c, e.block),
         fnBody |-> IF e.fnBody = -1 THEN "nil"
                    ELSE IF e.fnBody = e.block THEN "block" ELSE "other",
         fnList |-> IF e.fnBody = -1 THEN <<>> ELSE blockList(c, e.fnBody, e.fnBody + 1)]

\* a source and the offset of a type error in it
LocateInputs ==
    /\ content \in Sources
    /\ offset \in 0..Len(content)
    /\ msg = NoMsg
    /\ loc = NoLoc
    /\ nodes = NoNodes
    /\ outcome = NoOutcome

\* fixError is called for the source and the offset; the nodes are those
\* findEnclosing finds in the source's tree
FixErrorLocated ==
    /\ ~outcome.called
    /\ \E m \in {<<"m">>} :
        /\ msg' = m
        /\ loc' = located(content, offset)
        /\ outcome' = fixError(content, offset, m, loc')
    /\ UNCHANGED <<content, offset, nodes>>
    /\ UNCHANGED <<runnerVars, fixerVars>>

(***************************************************************************)
(* Fixer.fixError from its first line, with the three structural           *)
(* micro-fixes.  A message is a sequence of pieces of text; the sources    *)
(* are an import entry or an assignment, one byte per character, with "n"  *)
(* a byte of a name and "\"p\"" an import path.                            *)
(***************************************************************************)
UnusedImport == "imported and not used"
UnusedVar == "declared and not used"
UselessAssignment == "no new variables on left side of :="

\* strings.Contains(msg, sub)
stringsContains(m, sub) == \E k \in 1..Len(m) : m[k] = sub

StructMsgs == {<<"\"p\" ", UnusedImport>>, <<"n ", UnusedVar>>, <<UselessAssignment>>, <<"m">>}

Names == SeqsUpTo({"n"}, MaxName)
ImportPath == <<"\"", "p", "\"">>
ImportEntries ==
    {pre \o name \o sep \o ImportPath \o suf :
        pre \in {<<>>, <<"\t">>}, name \in {<<>>}, sep \in {<<>>}, suf \in {<<>>, <<"\n">>}}
    \cup {pre \o name \o sep \o ImportPath \o suf :
        pre \in {<<>>, <<"\t">>}, name \in Names \ {<<>>}, sep \in {<<>>, <<" ">>, <<"\t">>},
        suf \in {<<>>, <<"\n">>}}
Assignments == {name \o op \o <<"n">> : name \in Names \ {<<>>}, op \in {<<":", "=">>, <<"=">>}}
StructSources == ImportEntries \cup Assignments

SetMin(S) == CHOOSE x \in S : \A y \in S : x <= y

\* the *ast.ImportSpec around the offset: spec.Name (when not nil) and spec.Path
importSpecNodes(c) ==
    LET quotes == {p \in 0..(Len(c) - 1) : c[p + 1] = "\""}
    IN  IF quotes = {} THEN {}
        ELSE LET path == SetMin(quotes)
                 name == {p \in 0..(path - 1) : c[p + 1] = "n"}
             IN  {[NoNodes EXCEPT !.kind = "import", !.named = name # {}, !.path = path,
                                  !.pos = IF name = {} THEN path ELSE SetMin(name),
                                  !.len = Cardinality(name)]}

\* the *ast.Ident with Pos() <= pos and End() >= pos
identNodes(c, off) ==
    {[NoNodes EXCEPT !.kind = "ident", !.pos = p, !.len = n] :
        p \in 0..off, n \in 1..Len(c)} \cap
    {nd \in [kind : {"ident"}, pos : 0..Len(c), len : 1..Len(c), path : {0}, named : {FALSE},
             define : {FALSE}] :
        /\ nd.pos + nd.len <= Len(c)
        /\ nd.pos + nd.len >= off
        /\ \A q \in nd.pos..(nd.pos + nd.len - 1) : c[q + 1] = "n"
        /\ nd.pos = 0 \/ c[nd.pos] # "n"
        /\ nd.pos + nd.len = Len(c) \/ c[nd.pos + nd.len + 1] # "n"}

\* the *ast.AssignStmt around the offset, with its TokPos and whether Tok is DEFINE
assignNodes(c) ==
    LET eqs == {p \in 0..(Len(c) - 1) : c[p + 1] = "="}
    IN  IF eqs = {} THEN {}
        ELSE LET eq == SetMin(eqs)
                 def == eq > 0 /\ c[eq] = ":"
             IN  {[NoNodes EXCEPT !.kind = "assign", !.define = def,
                                  !.pos = IF def THEN eq - 1 ELSE eq]}

\* what the micro-fix that fixError calls for the message can find (NoNodes:
\* its search of the tree finds nothing)
structNodes(c, off, m) ==
    {NoNodes} \cup
    (IF stringsContains(m, UnusedImport) THEN importSpecNodes(c)
     ELSE IF stringsContains(m, UnusedVar) THEN identNodes(c, off)
     ELSE IF stringsContains(m, UselessAssignment) THEN assignNodes(c)
     ELSE {})

\* bytes a micro-fix hands to Fixer.update, joined
microFixed(bytes) ==
    [NoOutcome EXCEPT !.called = TRUE, !.fixed = TRUE, !.updated = TRUE, !.patched = bytes]
\* a micro-fix that stores the content although it reports no fix
microNotFixed_stores == [NoOutcome EXCEPT !.called = TRUE, !.updated = TRUE]
\* `return false' of a micro-fix: Fixer.update is not reached
microNotFixed == [NoOutcome EXCEPT !.called = TRUE]

\* Fixer.fixUnusedImport
fixUnusedImport(c, nd) ==
    IF nd.kind # "import" THEN microNotFixed
    ELSE LET insertPos == IF nd.named THEN nd.pos ELSE nd.path
             delLen == IF nd.named THEN nd.len + 1 ELSE 0
         IN  microFixed(Slice(c, 0, insertPos) \o <<"_", " ">>
                        \o Slice(c, insertPos + delLen, Len(c)))

\* Fixer.fixUnusedVar
fixUnusedVar(c, nd) ==
    IF nd.kind # "ident" THEN microNotFixed
    ELSE microFixed(Slice(c, 0, nd.pos) \o <<"_">> \o Slice(c, nd.pos + nd.len, Len(c)))

\* Fixer.fixUselessAssignment
fixUselessAssignment(c, nd) ==
    IF nd.kind # "assign" \/ ~nd.define THEN microNotFixed
    ELSE microFixed(Slice(c, 0, nd.pos) \o Slice(c, nd.pos + 1, Len(c)))

\* Fixer.fixError, whole
fixErrorStructural(c, off, m, l, nd) ==
    IF stringsContains(m, UnusedImport) THEN fixUnusedImport(c, nd)
    ELSE IF stringsContains(m, UnusedVar) THEN fixUnusedVar(c, nd)
    ELSE IF stringsContains(m, UselessAssignment) THEN fixUselessAssignment(c, nd)
    ELSE fixError(c, off, m, l)

\* an import entry or an assignment and the offset of a type error in it
StructInputs ==
    /\ content \in StructSources
    /\ offset \in 0..(Len(content) - 1)
    /\ msg = NoMsg
    /\ loc = NoLoc
    /\ nodes = NoNodes
    /\ outcome = NoOutcome

\* fixError is called with a message of one of the three structural kinds or
\* of another kind
FixErrorStructuralCall ==
    /\ ~outcome.called
    /\ \E m \in StructMsgs :
       \E nd \in structNodes(content, offset, m), l \in Locs(content, offset) :
        /\ msg' = m
        /\ loc' = l
        /\ nodes' = nd
        /\ \E filename \in Files :
           \E o \in {fixErrorStructural(content, offset, m, l, nd)} :
            /\ outcome' = [o EXCEPT !.file = filename]
            /\ Fixed' = IF o.updated THEN update(Fixed, filename) ELSE Fixed
    /\ UNCHANGED <<content, offset>>
    /\ UNCHANGED <<fpc, fi, passFixed, pkgs, parsed, pf, fRet, Fixed0, loads, fixPasses,
                   sawError, everPatched, lastPass, tried, passPatched>>
    /\ UNCHANGED runnerVars

(***************************************************************************)
(* The specifications.                                                     *)
(***************************************************************************)
\* the build loop, from Runner.New on
InitRunner == New /\ FixerIdle /\ PatchIdle
SpecRunner == InitRunner /\ [][RunnerNext]_vars

\* one call of Fixer.Fix, from any overlay earlier calls can have left
InitFixer == NewFixer /\ RunnerIdle /\ PatchIdle
SpecFixer == InitFixer /\ [][Fix]_vars

\* one call of fixError, for every content, offset, message and located nodes
InitPatch == PatchInputs /\ RunnerIdle /\ FixerIdle
SpecPatch == InitPatch /\ [][FixErrorCall]_vars

\* one call of fixError for a type error, for every source and offset
InitLocate == LocateInputs /\ RunnerIdle /\ FixerIdle
SpecLocate == InitLocate /\ [][FixErrorLocated]_vars

\* one call of fixError on an import entry or an assignment, for every message
InitStructural == StructInputs /\ RunnerIdle /\ FixerHolding
SpecStructural == InitStructural /\ [][FixErrorStructuralCall]_vars

(***************************************************************************)
(* Properties of the fixer loops.                                          *)
(***************************************************************************)
\* C6: a call of parseFile parses at most 10 times and patches at most 9 times;
\* while it goes on every parse so far failed and was patched; it returns the
\* tree at the first parse that succeeds, and the parse error at the first
\* failed parse that fixError does not fix (or that is no error list, or is
\* the 10th).
C6_ParseFileBounded ==
    /\ pf.i <= MaxParses
    /\ pf.patches <= MaxParses - 1
    /\ pf.status = "running" => pf.patches = pf.i /\ pf.lastParse \in {"none", "errlist"}
    /\ pf.status = "tree" => pf.lastParse = "ok" /\ pf.patches = pf.i - 1
    /\ pf.status = "error" =>
           /\ pf.lastParse \in {"errlist", "other"}
           /\ pf.patches = pf.i - 1
           /\ pf.i = MaxParses \/ pf.lastParse = "other" \/ pf.lastFix = "notfixed"

\* C6 witness: a call that ended at the cap, every one of its 10 parses having
\* failed and the first 9 having been patched.
C6_Witness ==
    /\ pf.status = "error"
    /\ pf.i = MaxParses
    /\ pf.patches = MaxParses - 1
    /\ pf.lastParse = "errlist"

\* C7: Fix makes at most 10 load passes; it returns nil right after the first
\* pass that applied no fix, or after 10 passes that each applied one; it
\* returns an error only from a failed load or a failed package fix, at once.
C7_FixBounded ==
    /\ loads <= MaxPasses
    /\ fRet = "none" => fixPasses = fi /\ loads \in {fi, fi + 1}
    /\ fRet = "nil" =>
           \/ lastPass = "nofix" /\ fixPasses = loads - 1
           \/ lastPass = "fix" /\ fixPasses = MaxPasses /\ loads = MaxPasses
    /\ fRet = "error" => lastPass \in {"loaderr", "pkgerr"} /\ fixPasses = loads - 1

\* C7 witness: Fix gave up (nil) after 10 passes that each applied a fix.
C7_Witness ==
    /\ fRet = "nil"
    /\ loads = MaxPasses
    /\ fixPasses = MaxPasses

\* C8: when neither the parser nor the type checker (nor the load) reports an
\* error, Fix returns nil after exactly one load pass, calls update for no
\* file and leaves the Fixed map as it was.
C8_ValidSourceUntouched ==
    (fRet # "none" /\ ~sawError) =>
        /\ fRet = "nil"
        /\ loads = 1
        /\ everPatched = {}
        /\ Fixed = Fixed0

\* C8 witness: Fix has returned from error-free source, with an overlay that
\* was empty when it was called.
C8_Witness ==
    /\ fRet = "nil"
    /\ ~sawError
    /\ Fixed0 = NoFiles
    /\ loads = 1

\* C10: the overlay only grows.  No step removes an entry; the entries are
\* those Fix was called with and one for each file update was called for;
\* an entry update did not write is the content it was.
C10_OverlayOnlyGrows ==
    /\ [][\A f \in Files : Fixed[f] # 0 => Fixed'[f] # 0]_vars
    /\ [](\A f \in Files :
            /\ Fixed[f] # 0 <=> (Fixed0[f] # 0 \/ f \in everPatched)
            /\ f \in everPatched => Fixed[f] = Patched
            /\ f \notin everPatched => Fixed[f] = Fixed0[f])

\* C10 witness: one file patched by parseFile or fixPkg while another file's
\* earlier entry is still there.
C10_Witness ==
    /\ fRet # "none"
    /\ \E f, g \in Files : f \in everPatched /\ g \notin everPatched /\ Fixed0[g] = Prior


(***************************************************************************)
(* Properties of the deferred-fault patch.                                 *)
(***************************************************************************)
lineBreaks(s) == SelectSeq(s, isNewline)
\* the line a byte at 0-based position q of s is on
lineOf(s, q) == 1 + Cardinality({k \in 1..q : s[k] = "\n"})

\* C9: for every deferred-fault patch, with removed range [start, end) and
\* error offset p, the replacement is the line breaks of content[start:p] in
\* order, then one panic statement holding no line break, then the line breaks
\* of content[p:end]; the patched file has as many line breaks as the input
\* and every byte after the removed range is on the line it was on.
C9_NewlinesPreserved ==
    outcome.fixed =>
        LET before == lineBreaks(Slice(content, outcome.start, offset))
            after == lineBreaks(Slice(content, offset, outcome.end))
            code == outcome.newCode
            middle == SubSeq(code, Len(before) + 1, Len(code) - Len(after))
            shift == Len(outcome.patched) - Len(content)
        IN  /\ Len(code) > Len(before) + Len(after)
            /\ SubSeq(code, 1, Len(before)) = before
            /\ SubSeq(code, Len(code) - Len(after) + 1, Len(code)) = after
            /\ lineBreaks(middle) = <<>>
            /\ SubSeq(middle, 1, 6) = <<"p", "a", "n", "i", "c", "(">>
            /\ middle[Len(middle)] = ")"
            /\ Len(lineBreaks(outcome.patched)) = Len(lineBreaks(content))
            /\ \A q \in outcome.end..(Len(content) - 1) :
                   /\ outcome.patched[q + shift + 1] = content[q + 1]
                   /\ lineOf(outcome.patched, q + shift) = lineOf(content, q)

\* C9 witness: a patch whose removed range has a carriage return before the
\* error offset and a line feed after it, for a message that itself holds a
\* line break, with bytes following the removed range.
C9_Witness ==
    /\ outcome.fixed
    /\ lineBreaks(Slice(content, outcome.start, offset)) = <<"\r">>
    /\ lineBreaks(Slice(content, offset, outcome.end)) = <<"\n">>
    /\ \E k \in 1..Len(msg) : msg[k] = "\n"
    /\ outcome.end < Len(content)


(***************************************************************************)
(* Properties of the range found in a syntax tree.                         *)
(***************************************************************************)
\* the blocks whose span [Pos(), End()) holds the offset
blocksAround(c, off) == {b \in 0..(Len(c) - 1) : c[b + 1] = "{" /\ b <= off /\ off <= Rbrace(c, b)}
\* the statements of the list of block b that begin at or before the offset
childrenBefore(c, b, off) == {p \in Range(blockList(c, b, b + 1)) : p <= off}

\* C11: when the innermost block around the error offset has a valid closing
\* brace and a statement of its list begins at or before the offset, the
\* range found starts at the last such statement, ends at the offset of the
\* block's closing brace and has no tail, whatever statements precede it.
C11_RangeIsStatementToBlockEnd ==
    (outcome.called /\ blocksAround(content, offset) # {}) =>
        LET b == SetMax(blocksAround(content, offset))
            kids == childrenBefore(content, b, offset)
        IN  kids # {} =>
                /\ ~outcome.crash
                /\ outcome.start = SetMax(kids)
                /\ outcome.end = Rbrace(content, b)
                /\ outcome.tail = <<>>


(***************************************************************************)
(* Further properties of the fixer loops.                                  *)
(***************************************************************************)
\* C12: when a call of parseFile has ended, the content the overlay holds for
\* the file parses (the last parse succeeded), or the call patched nothing:
\* a call that ends with an error it does not fix, or at its cap, leaves none
\* of its patches in the overlay.
C12_OverlayParsesOrUnpatched ==
    pf.status \in {"tree", "error"} =>
        \/ pf.lastParse = "ok"
        \/ pf.patches = 0


\* C13: whatever nodes findEnclosing returns, the call of fixError ends
\* without a crash, and when no statement is found or the offset is in no
\* function body it returns false and writes nothing to the overlay, also
\* when a block with a valid closing brace is found without a statement.
C13_AbsentNodesNotFixed ==
    outcome.called =>
        /\ ~outcome.crash
        /\ (loc.stmt = -1 \/ loc.fnBody = "nil") =>
               ~outcome.fixed /\ outcome.patched = <<>>


(***************************************************************************)
(* Further properties of the build loop.                                   *)
(***************************************************************************)
\* C14: every temporary file that exists is in the cleanup list, and in
\* non-verbose mode none exists any more once the process has exited,
\* whether Run executed (after a build or after giving up) or Prepare
\* returned an error.
C14_TempFilesRemoved ==
    /\ disk \subseteq cleanup
    /\ (pc = "exited" /\ ~verbose) => disk = {}


\* C15: a failure of a collaborator ends the run at once.  When the compiler
\* could not be started, Prepare has returned an error and built is false;
\* and whenever Prepare returned an error (a temporary file that could not
\* be made, a failed load, a compiler that could not be started), Run is not
\* called and the process exits with status 1.
C15_CollaboratorFailureIsFatal ==
    /\ (pc \in {"returned", "exited"} /\ lastExit = "notrun") =>
           prepErr = "error" /\ ~built
    /\ (pc = "exited" /\ prepErr = "error") =>
           exitStatus = "1" /\ ran.cmd = "none"


(***************************************************************************)
(* Further properties of the deferred-fault patch.                         *)
(***************************************************************************)
\* C16: when findRangeToFix returns from its last case and no boundary (a
\* line-initial closing brace, declaration keyword or comment) follows the
\* statement's start, the tail is one closing brace and the range ends at
\* the end of the content, so the patched file is the bytes before the
\* statement, the replacement and the brace, whether or not the content
\* ends with a line break.
C16_LastCaseRemovesToEndOfFile ==
    (/\ outcome.called
     /\ outcome.tail # <<>>
     /\ indexBoundary(Slice(content, outcome.start, Len(content)), 1, FALSE) = -1) =>
        /\ outcome.tail = <<"}">>
        /\ outcome.end = Len(content)
        /\ outcome.fixed =>
               outcome.patched = Slice(content, 0, outcome.start) \o outcome.newCode \o <<"}">>


(***************************************************************************)
(* Properties of the structural micro-fixes.                               *)
(***************************************************************************)
\* C17: the patch for an unused import with a local name keeps every byte
\* before the name and every byte from the end of the name on, the byte
\* that directly follows the name included; for an entry without a local
\* name the patch is the content with "_ " inserted before the path.
C17_UnusedImportTouchesNameOnly ==
    (outcome.fixed /\ nodes.kind = "import") =>
        LET p == outcome.patched
            rest == Slice(content, nodes.pos + nodes.len, Len(content))
        IN  IF nodes.named
            THEN /\ Len(p) >= nodes.pos + Len(rest)
                 /\ SubSeq(p, 1, nodes.pos) = Slice(content, 0, nodes.pos)
                 /\ SubSeq(p, Len(p) - Len(rest) + 1, Len(p)) = rest
            ELSE p = Slice(content, 0, nodes.path) \o <<"_", " ">>
                     \o Slice(content, nodes.path, Len(content))


\* the result of the micro-fix the message selects (NoOutcome: none selected)
microFixOf(c, m, nd) ==
    IF stringsContains(m, UnusedImport) THEN fixUnusedImport(c, nd)
    ELSE IF stringsContains(m, UnusedVar) THEN fixUnusedVar(c, nd)
    ELSE IF stringsContains(m, UselessAssignment) THEN fixUselessAssignment(c, nd)
    ELSE NoOutcome

\* C19: when the message is of one of the three structural kinds and the
\* micro-fix for it returns false, fixError takes the deferred-fault path:
\* its outcome is the one findRangeToFix and the panic statement give for
\* that content, offset and message.
C19_StructuralFalseFallsThrough ==
    (/\ outcome.called
     /\ microFixOf(content, msg, nodes).called
     /\ ~microFixOf(content, msg, nodes).fixed) =>
        outcome = [fixError(content, offset, msg, loc) EXCEPT !.file = outcome.file]


(***************************************************************************)
(* Properties of fixPkg.                                                   *)
(***************************************************************************)
\* C18 (as claimed): a call of fixPkg that reaches fixError calls it once for
\* every type error of the unit: a unit with k errors gets k attempts in the
\* pass, so a later error is attempted when the first is not fixed.
C18_EveryTypeErrorAttempted ==
    tried.ended \in {"fixed", "notfixed"} => tried.calls = tried.errors

\* C18 (amended): in each pass fixPkg calls fixError at most once for a
\* unit, for the unit's first reported type error and no other; a unit
\* without type errors gets no attempt, and a later error is not attempted
\* in that pass, whether or not the first was fixed.
C18_FirstTypeErrorAttempted ==
    /\ Len(tried.calls) <= 1
    /\ tried.ended \in {"fixed", "notfixed"} => tried.calls = <<tried.errors[1]>>
    /\ tried.ended \in {"none", "noerrors", "readerr", "cgoparse"} => tried.calls = <<>>
    /\ tried.ended = "noerrors" <=> (tried.ended # "none" /\ tried.errors = <<>>)

\* C18 witness: a unit with two type errors in different files whose first
\* error was not fixed; the second was not attempted.
C18_Witness ==
    /\ tried.ended = "notfixed"
    /\ Len(tried.errors) = 2
    /\ tried.errors[1] # tried.errors[2]
    /\ tried.calls = <<tried.errors[1]>>

\* C20: within one pass of Fix, fixPkg patches a file at its first type
\* error at most once, also when several of the loaded units hold the file
\* and report that error.
C20_PatchedOncePerPass ==
    \A f \in Files : passPatched[f] <= 1


\* C21: whenever fixError is called, the tree and the offset it gets were
\* obtained from the content it gets: in parseFile the content parsed next
\* is the overlay's current content for the file, and in fixPkg the file's
\* overlay content was not replaced between the load that parsed the tree
\* and the call.
C21_TreeMatchesContent ==
    /\ pf.status = "running" => pf.content = Fixed[pf.file]
    /\ tried.calls # <<>> => ~tried.stale

(***************************************************************************)
(* The frame of fixError.                                                  *)
(***************************************************************************)
\* C22: fixError changes at most the overlay entry of the file it is called
\* for, and returns true exactly when it replaced that entry: when it did not
\* return true the whole Fixed map is as before the call, and when it returned
\* true the file's entry is the patched content and every other entry is as
\* before.
C22_FixErrorFrame ==
    /\ ~outcome.called => Fixed = Fixed0
    /\ outcome.called =>
        /\ outcome.file \in Files
        /\ outcome.fixed <=> Fixed[outcome.file] # Fixed0[outcome.file]
        /\ outcome.fixed => Fixed[outcome.file] = Patched
        /\ \A f \in Files \ {outcome.file} : Fixed[f] = Fixed0[f]

\* C22 witness: a micro-fix returned true for a file while the overlay held
\* an earlier fix of the other file, which is still there.
C22_Witness ==
    /\ outcome.called
    /\ outcome.fixed
    /\ stringsContains(msg, UnusedVar)
    /\ \E f \in Files \ {outcome.file} : Fixed0[f] = Prior /\ Fixed[f] = Prior

(***************************************************************************)
(* The units Prepare hands to the fixer.                                   *)
(***************************************************************************)
\* C23: across one Prepare run no unit is handed to the fixer in more than
\* one iteration of the build loop: a unit the fixer got is marked attempted,
\* the iteration that hands units to the fixer is the one whose build
\* reported them for the first time and it marked all of them, and a build
\* that reports a unit again is not followed by a call of the fixer.
C23_HandedInOneIteration ==
    /\ \A u \in Units : handed[u] <= 1
    /\ \A u \in Units : handed[u] = 1 => u \in fixed
    /\ pc \in {"fixcl", "fix"} =>
        /\ Range(lastReported) \cap (reportedBefore \cup fixedBefore) = {}
        /\ Range(lastReported) \subseteq fixed
        /\ \A u \in Range(toFix) : handed[u] = 0

\* C23 witness: three iterations handed every unit to the fixer once, the
\* command-line unit included, and the next build reported one of them again:
\* Prepare returned without another call of the fixer.
C23_Witness ==
    /\ \A u \in Units : handed[u] = 1
    /\ pc = "returned" /\ prepErr = "nil" /\ ~built
    /\ builds = 4
    /\ Range(lastReported) \cap reportedBefore # {}

====
